---- MODULE Spec2Model ----
(***************************************************************************)
(* Model of the bundle builder core:                                       *)
(*  - the simulation helpers of crates/sim/src/simulation/mod.rs           *)
(*    (associated-slot lookup, storage-access classification, entity       *)
(*    staking, the SimulationError -> MempoolError conversion);            *)
(*  - the entry-point calls of src/common/types/entry_point_like.rs;       *)
(*  - UserOperation of src/common/types.rs (pack, op_hash, the address of  *)
(*    a field);                                                            *)
(*  - BuilderTask::run of crates/builder/src/task.rs.                      *)
(*                                                                         *)
(* Init draws one call (the operation and its arguments) from bounded      *)
(* sets.  A pure operation has one action, which runs it and records what  *)
(* it returns (or that it panicked) in ret.  run is a sequence of steps    *)
(* interleaved with the tasks it spawns.                                   *)
(***************************************************************************)
EXTENDS Integers, Sequences, FiniteSets, TLC

VARIABLES op, args, ret, pc, frame, tasks

vars == <<op, args, ret, pc, frame, tasks>>

-----------------------------------------------------------------------------
(* Bounds of the model.                                                    *)

\* width of the unsigned word standing for U256 (256 in the program)
WordBits == 28
\* number of bytes of an address (20 in the program)
AddressLen == 2
\* the lowest slot recorded in an associated-slot set (0x100 in scenario S4)
Base == 256
\* largest number of distinct slots in one AccessInfo
MaxSlots == 2
\* stakes, delays and their minima range over 0..MaxStake
MaxStake == 2
\* longest violation list
MaxViolations == 3
\* the variants of SimulationViolation are numbered 0..MaxVariant
MaxVariant == 2
\* longest list of aggregator groups
MaxGroups == 2
\* gas estimates and op indices range over 0..MaxGas
MaxGas == 1
\* a field holds at most MaxExtra bytes after the address at its head
MaxExtra == 2
\* longest list of entry-point settings
MaxEntryPoints == 2
\* largest number of bundle builders a configuration asks for in all
MaxSenders == 2
\* a KMS connection completes after 0..MaxLatency milliseconds
MaxLatency == 3

\* `slot - next_smallest_slot < 128.into()`
AssociatedRange == 128

U256Max == 2^WordBits - 1

-----------------------------------------------------------------------------
(* Addresses are byte strings; a word is read from them big-endian.        *)

Addr(b1, b2) ==
    [i \in 1..AddressLen |-> IF i = AddressLen THEN b2
                             ELSE IF i = AddressLen - 1 THEN b1 ELSE 0]

SenderAddr     == Addr(0, 17)
EntryPointAddr == Addr(19, 6)
EntityAddr     == Addr(1, 127)
OtherAddr      == Addr(170, 170)

Addresses == {SenderAddr, EntryPointAddr, EntityAddr, OtherAddr}

RECURSIVE from_big_endian(_)
\* U256::from(&[u8]): the bytes read as a big-endian number
from_big_endian(bytes) ==
    IF bytes = <<>> THEN 0
    ELSE from_big_endian(SubSeq(bytes, 1, Len(bytes) - 1)) * 256 + bytes[Len(bytes)]

-----------------------------------------------------------------------------
(* U256 arithmetic: `+` and `-` panic on overflow.                         *)

\* uint's `impl Add`/`impl Sub`: panic_on_overflow!(overflow)
AddOverflows(a, b) == a + b > U256Max
SubOverflows(a, b) == a < b

SetMax(S) == CHOOSE x \in S : \A y \in S : y <= x

-----------------------------------------------------------------------------
(* AssociatedSlotsByAddress::is_associated_slot.  self is the map, a       *)
(* function whose domain is the set of addresses that have an entry.       *)

Returned(v) == [panic |-> FALSE, value |-> v]
Panicked    == [panic |-> TRUE]

is_associated_slot(self, address, slot) ==
    IF slot = from_big_endian(address) THEN Returned(TRUE)
    ELSE IF address \notin DOMAIN self THEN Returned(FALSE)
    ELSE IF AddOverflows(slot, 1) THEN Panicked
    ELSE LET below == {x \in self[address] : x < slot + 1} IN
         IF below = {} THEN Returned(FALSE)
         ELSE LET next_smallest_slot == SetMax(below) IN
              IF SubOverflows(slot, next_smallest_slot) THEN Panicked
              ELSE Returned(slot - next_smallest_slot < AssociatedRange)

-----------------------------------------------------------------------------
(* parse_storage_accesses.  An AccessInfo is modelled by the key sets of   *)
(* its reads and writes maps (the function reads the keys only).  The      *)
(* iteration order of a HashMap is not specified: reads_order and          *)
(* writes_order are the orders in which `keys()` yields the two key sets.  *)

EntityTypes == {"Account", "Paymaster", "Aggregator", "Factory"}

NeedsStake(needs_stake, accessing, accessed, address, slot) ==
    [tag |-> "NeedsStake", needs_stake |-> needs_stake, accessing |-> accessing,
     accessed |-> accessed, address |-> address, slot |-> slot]

Banned(slot) == [tag |-> "Banned", slot |-> slot]

Ok(v) == [tag |-> "Ok", value |-> v]
Panic == [tag |-> "Panic"]

\* parse_slot with the `if has_factory` test lost: a stake is always asked for
parse_slot_factory_ignored(a, slot) ==
    LET sender_assoc == is_associated_slot(a.slots_by_address, a.sender, slot)
        entity_assoc == is_associated_slot(a.slots_by_address, a.entity.address, slot)
    IN
    IF sender_assoc.panic \/ entity_assoc.panic THEN Panic
    ELSE IF sender_assoc.value /\ a.address # a.entity.address THEN
        Ok(<<NeedsStake("Factory", a.entity.kind, "Account", a.address, slot)>>)
    ELSE IF entity_assoc.value \/ a.address = a.entity.address THEN
        Ok(<<NeedsStake(a.entity.kind, a.entity.kind, a.entity.kind,
                        a.address, slot)>>)
    ELSE IF slot \notin a.access_info.writes THEN
        Ok(<<NeedsStake(a.entity.kind, a.entity.kind, "None", a.address, slot)>>)
    ELSE Ok(<<Banned(slot)>>)

\* the body of `for slot in slots`: the restrictions it pushes, or a panic
parse_slot(a, slot) ==
    LET sender_assoc == is_associated_slot(a.slots_by_address, a.sender, slot)
        entity_assoc == is_associated_slot(a.slots_by_address, a.entity.address, slot)
    IN
    IF sender_assoc.panic \/ entity_assoc.panic THEN Panic
    ELSE
    LET is_sender_associated == sender_assoc.value
        is_entity_associated == entity_assoc.value
        is_same_address      == a.address = a.entity.address
        is_read_permission   == slot \notin a.access_info.writes
    IN
    IF is_sender_associated /\ ~is_same_address THEN
        IF a.has_factory THEN
            IF a.entity.kind \in {"Paymaster", "Aggregator"}
            THEN Ok(<<NeedsStake(a.entity.kind, a.entity.kind, "Account",
                                 a.address, slot)>>)
            ELSE Ok(<<NeedsStake("Factory", a.entity.kind, "Account",
                                 a.address, slot)>>)
        ELSE Ok(<<>>)
    ELSE IF is_entity_associated \/ is_same_address THEN
        Ok(<<NeedsStake(a.entity.kind, a.entity.kind, a.entity.kind,
                        a.address, slot)>>)
    ELSE IF is_read_permission THEN
        Ok(<<NeedsStake(a.entity.kind, a.entity.kind, "None", a.address, slot)>>)
    ELSE Ok(<<Banned(slot)>>)

RECURSIVE parse_slots(_, _, _)
\* the loop over `slots`, restrictions being the vector built so far
parse_slots(a, slots, restrictions) ==
    IF slots = <<>> THEN Ok(restrictions)
    ELSE LET r == parse_slot(a, Head(slots)) IN
         IF r = Panic THEN Panic
         ELSE parse_slots(a, Tail(slots), restrictions \o r.value)

\* parse_storage_accesses with the entry point left out of the early return
parse_storage_accesses_sender_only(a, reads_order, writes_order) ==
    IF a.address = a.sender THEN Ok(<<>>)
    ELSE parse_slots(a, reads_order \o writes_order, <<>>)

parse_storage_accesses(a, reads_order, writes_order) ==
    IF a.address = a.sender \/ a.address = a.entrypoint THEN Ok(<<>>)
    ELSE parse_slots(a, reads_order \o writes_order, <<>>)

\* the orders in which a HashMap may yield the keys S
KeyOrders(S) ==
    {f \in [1..Cardinality(S) -> S] : \A i, j \in 1..Cardinality(S) : f[i] = f[j] => i = j}

-----------------------------------------------------------------------------
(* Entity staking.  Option<T> is <<>> for None and <<x>> for Some(x).      *)

None == <<>>
Some(x) == <<x>>

\* is_staked with the stake compared strictly
is_staked_strict(info, sim_settings) ==
    /\ info.stake > sim_settings.min_stake_value
    /\ info.unstake_delay_sec >= sim_settings.min_unstake_delay

is_staked(info, sim_settings) ==
    /\ info.stake >= sim_settings.min_stake_value
    /\ info.unstake_delay_sec >= sim_settings.min_unstake_delay

infos_from_validation_output(factory_address, sender_address, paymaster_address, entry_point_out, sim_settings) ==
    LET factory ==
            IF factory_address = None THEN None
            ELSE Some([address |-> factory_address[1],
                       is_staked |-> is_staked(entry_point_out.factory_info,
                                               sim_settings)])
        sender ==
            [address |-> sender_address,
             is_staked |-> is_staked(entry_point_out.sender_info, sim_settings)]
        paymaster ==
            IF paymaster_address = None THEN None
            ELSE Some([address |-> paymaster_address[1],
                       is_staked |-> is_staked(entry_point_out.paymaster_info,
                                               sim_settings)])
        aggregator ==
            IF entry_point_out.aggregator_info = None THEN None
            ELSE LET aggregator_info == entry_point_out.aggregator_info[1] IN
                 Some([address |-> aggregator_info.address,
                       is_staked |-> is_staked(aggregator_info.stake_info,
                                               sim_settings)])
    IN  [factory |-> factory, sender |-> sender, paymaster |-> paymaster,
         aggregator |-> aggregator]

override_is_staked(ei, allow_unstaked_addresses) ==
    [ei EXCEPT !.is_staked = ei.address \in allow_unstaked_addresses \/ ei.is_staked]

\* `if let Some(mut factory) = eis.factory` binds a copy of the EntityInfo
\* (the pattern takes the field by value out of `&mut EntityInfos`, which
\* compiles for a Copy type only): override_is_staked updates the local
\* factory, paymaster and aggregator, and the locals are dropped.
override_infos_staked(eis, allow_unstaked_addresses) ==
    LET sender == override_is_staked(eis.sender, allow_unstaked_addresses)
        factory ==
            IF eis.factory = None THEN None
            ELSE Some(override_is_staked(eis.factory[1], allow_unstaked_addresses))
        paymaster ==
            IF eis.paymaster = None THEN None
            ELSE Some(override_is_staked(eis.paymaster[1], allow_unstaked_addresses))
        aggregator ==
            IF eis.aggregator = None THEN None
            ELSE Some(override_is_staked(eis.aggregator[1], allow_unstaked_addresses))
    IN  [eis EXCEPT !.sender = sender]

-----------------------------------------------------------------------------
(* impl From<SimulationError> for MempoolError.                            *)

\* the variants of SimulationViolation, numbered in declaration order, each
\* with a payload
SimulationViolations == [variant : 0..MaxVariant, data : 0..1]

\* the derived order of SimulationViolation: by variant, then by payload
ViolationLess(v, w) ==
    \/ v.variant < w.variant
    \/ v.variant = w.variant /\ v.data < w.data

RECURSIVE iter_min(_, _, _)
\* Iterator::min over violations[i..], best being the index kept so far: a
\* later element replaces it only when it compares strictly less
iter_min(violations, i, best) ==
    IF i > Len(violations) THEN best
    ELSE iter_min(violations, i + 1,
                  IF ViolationLess(violations[i], violations[best]) THEN i ELSE best)

MempoolOther(e) == [tag |-> "Other", error |-> e]
MempoolSimulationViolation(v) == [tag |-> "SimulationViolation", violation |-> v]

\* the conversion taking the first violation recorded
from_simulation_error_first(error) ==
    IF error.violation_error.tag # "Violations" \/ error.violation_error.violations = <<>>
    THEN MempoolOther(error.violation_error)
    ELSE MempoolSimulationViolation(error.violation_error.violations[1])

\* The error is taken by value: the list in which mem::replace leaves the
\* dummy in the place of the violation taken is dropped on return, and the
\* MempoolError is all that is left of the call.
from_simulation_error(error) ==
    IF error.violation_error.tag # "Violations"
    THEN MempoolOther(error.violation_error)
    ELSE LET violations == error.violation_error.violations IN
         IF violations = <<>> THEN MempoolOther(error.violation_error)
         ELSE LET violation == iter_min(violations, 2, 1) IN
              MempoolSimulationViolation(violations[violation])

-----------------------------------------------------------------------------
(* EntryPointLike for IEntryPoint: estimate_handle_ops_gas and send_bundle *)
(* (src/common/types/entry_point_like.rs).                                 *)

Err(e) == [tag |-> "Err", error |-> e]

\* Address::zero()
ZeroAddress == [i \in 1..AddressLen |-> 0]

\* entry_point.handle_ops(ops, beneficiary)
handle_ops(ops, beneficiary) ==
    [method |-> "handleOps", ops |-> ops, beneficiary |-> beneficiary]

\* entry_point.handle_aggregated_ops(ops_per_aggregator, beneficiary)
handle_aggregated_ops(ops_per_aggregator, beneficiary) ==
    [method |-> "handleAggregatedOps", ops_per_aggregator |-> ops_per_aggregator,
     beneficiary |-> beneficiary]

\* get_handle_ops_call with the `len() == 1` test lost: a list that starts
\* with a zero-aggregator group goes to handleOps
get_handle_ops_call_first_group(ops_per_aggregator, beneficiary) ==
    IF Len(ops_per_aggregator) >= 1 /\ ops_per_aggregator[1].aggregator = ZeroAddress
    THEN handle_ops(ops_per_aggregator[1].user_ops, beneficiary)
    ELSE handle_aggregated_ops(ops_per_aggregator, beneficiary)

get_handle_ops_call(ops_per_aggregator, beneficiary) ==
    IF Len(ops_per_aggregator) = 1 /\ ops_per_aggregator[1].aggregator = ZeroAddress
    THEN handle_ops(ops_per_aggregator[1].user_ops, beneficiary)
    ELSE handle_aggregated_ops(ops_per_aggregator, beneficiary)

\* The errors of the entry point contract, as abigen decodes them: the
\* revert data is a selector followed by the encoded arguments, and
\* X::decode succeeds when the selector is X's and the arguments decode.
RevertData(selector, body) == [selector |-> selector, body |-> body]

FailedOp_decode(revert_data) ==
    IF revert_data.selector = "FailedOp(uint256,string)" /\ Len(revert_data.body) = 2
    THEN Ok([op_index |-> revert_data.body[1], reason |-> revert_data.body[2]])
    ELSE Err("InvalidData")

SignatureValidationFailed_decode(revert_data) ==
    IF revert_data.selector = "SignatureValidationFailed(address)" /\ Len(revert_data.body) = 1
    THEN Ok([aggregator |-> revert_data.body[1]])
    ELSE Err("InvalidData")

SuccessWithGas(gas) == [tag |-> "SuccessWithGas", gas |-> gas]
FailedOp(op_index, reason) == [tag |-> "FailedOp", op_index |-> op_index, reason |-> reason]
SignatureValidationFailed(aggregator) ==
    [tag |-> "SignatureValidationFailed", aggregator |-> aggregator]

\* estimate_handle_ops_gas where every revert is taken for a FailedOp
estimate_handle_ops_gas_any_revert(result) ==
    IF result.tag = "Ok" THEN Ok(SuccessWithGas(result.value))
    ELSE IF result.error.tag = "Revert"
         THEN Ok(FailedOp(0, "revert"))
         ELSE Err(result.error)

\* result is what `.estimate_gas().await` gave for the call.  The op_index
\* the entry point reverts with is an index into the ops of the call, so
\* `as_usize()` keeps its value.
estimate_handle_ops_gas(result) ==
    IF result.tag = "Ok" THEN Ok(SuccessWithGas(result.value))
    ELSE LET error == result.error IN
         IF error.tag = "Revert" /\ FailedOp_decode(error.data).tag = "Ok"
         THEN LET failed == FailedOp_decode(error.data).value IN
              Ok(FailedOp(failed.op_index, failed.reason))
         ELSE IF error.tag = "Revert"
                 /\ SignatureValidationFailed_decode(error.data).tag = "Ok"
         THEN LET failure == SignatureValidationFailed_decode(error.data).value IN
              Ok(SignatureValidationFailed(failure.aggregator))
         ELSE Err(error)

\* result is what `.gas(gas).send().await` gave for the call
send_bundle(result) ==
    IF result.tag = "Ok" THEN Ok(result.value.tx_hash)
    ELSE Err([context |-> "should send bundle transaction", source |-> result.error])

-----------------------------------------------------------------------------
(* UserOperation (src/common/types.rs): the address at the head of a       *)
(* field, pack and op_hash.  Bytes are sequences of numbers 0..255.        *)

\* get_address_from_field taking `<=` for `<`
get_address_from_field_le(data) ==
    IF Len(data) <= AddressLen THEN None
    ELSE Some(SubSeq(data, 1, AddressLen))

\* `data.len() < 20`, `&data[..20]`: 20 is the length of an address
get_address_from_field(data) ==
    IF Len(data) < AddressLen THEN None
    ELSE Some(SubSeq(data, 1, AddressLen))

factory(uo) == get_address_from_field(uo.init_code)

paymaster(uo) == get_address_from_field(uo.paymaster_and_data)

\* the size of an ABI word, and of the length entry pack cuts off
AbiWord == 32

Zeros(n) == [i \in 1..n |-> 0]

\* the len low bytes of n, most significant first; a word of the model has
\* no bit above the byte WordBits \div 8
to_big_endian(n, len) ==
    [i \in 1..len |->
        IF len - i > WordBits \div 8 THEN 0 ELSE (n \div (256 ^ (len - i))) % 256]

RECURSIVE concat_first(_, _)
\* the first n byte strings of parts, one after the other
concat_first(parts, n) ==
    IF n = 0 THEN <<>> ELSE concat_first(parts, n - 1) \o parts[n]

concat(parts) == concat_first(parts, Len(parts))

TokenAddress(a) == [type |-> "Address", value |-> a]
TokenUint(n)    == [type |-> "Uint", value |-> n]
TokenBytes(b)   == [type |-> "Bytes", value |-> b]

\* the word of a static token
encode_word(token) ==
    IF token.type = "Address"
    THEN Zeros(AbiWord - Len(token.value)) \o token.value
    ELSE to_big_endian(token.value, AbiWord)

\* the tail of a dynamic token: its length, then its bytes padded with
\* zeros to whole words
encode_bytes(b) ==
    to_big_endian(Len(b), AbiWord) \o b \o Zeros((AbiWord - (Len(b) % AbiWord)) % AbiWord)

\* ethers::abi::encode: the heads of the tokens (the word of a static
\* token, the offset of its tail for a dynamic one), then the tails
encode(tokens) ==
    LET tails == [i \in 1..Len(tokens) |->
                    IF tokens[i].type = "Bytes" THEN encode_bytes(tokens[i].value)
                    ELSE <<>>]
        heads == [i \in 1..Len(tokens) |->
                    IF tokens[i].type = "Bytes"
                    THEN to_big_endian(AbiWord * Len(tokens)
                                         + Len(concat_first(tails, i - 1)), AbiWord)
                    ELSE encode_word(tokens[i])]
    IN  concat(heads) \o concat(tails)

\* pack that encodes the signature with the other fields
pack_with_signature(uo) ==
    encode(<<TokenAddress(uo.sender), TokenUint(uo.nonce), TokenBytes(uo.init_code),
             TokenBytes(uo.call_data), TokenUint(uo.call_gas_limit),
             TokenUint(uo.verification_gas_limit), TokenUint(uo.pre_verification_gas),
             TokenUint(uo.max_fee_per_gas), TokenUint(uo.max_priority_fee_per_gas),
             TokenBytes(uo.paymaster_and_data), TokenBytes(uo.signature)>>)

pack(uo) ==
    LET packed ==
            encode(<<TokenAddress(uo.sender), TokenUint(uo.nonce),
                     TokenBytes(uo.init_code), TokenBytes(uo.call_data),
                     TokenUint(uo.call_gas_limit),
                     TokenUint(uo.verification_gas_limit),
                     TokenUint(uo.pre_verification_gas),
                     TokenUint(uo.max_fee_per_gas),
                     TokenUint(uo.max_priority_fee_per_gas),
                     TokenBytes(uo.paymaster_and_data), TokenBytes(<<>>)>>)
    IN  SubSeq(packed, 1, Len(packed) - AbiWord)

\* keccak256 is taken as a function without collisions: the digest of a
\* byte string is the string under a tag, and holds one place in to_vec()
keccak256(bytes) == [keccak256 |-> bytes]

op_hash(uo, entry_point, chain_id) ==
    keccak256(concat(<<<<keccak256(pack(uo))>>,
                       encode(<<TokenAddress(entry_point)>>),
                       encode(<<TokenUint(chain_id)>>)>>))

-----------------------------------------------------------------------------
(* BuilderTask (crates/builder/src/task.rs): run and the builders it       *)
(* creates.  frame holds the locals of run: the position ep in             *)
(* entry_points, the builder index i within it, the position pk of pk_iter *)
(* in private_keys, the number of trackers created, the outcome of the     *)
(* last KMS connection and the stage run is at.  tasks holds the spawned   *)
(* tasks: the senders in the order they were spawned, the local builder    *)
(* server and the remote server.                                           *)

EntryPointVersions == {"V0_6", "V0_7", "Unspecified"}

\* the divisor of redis_lock_ttl_millis in the KMS timeout
KmsTimeoutDivisor == 4

\* pk_iter handing out the keys from the back
pk_iter_next_back(private_keys, pk) ==
    IF pk <= Len(private_keys)
    THEN Some(private_keys[Len(private_keys) - pk + 1])
    ELSE None

\* pk_iter.next() with pk_iter at position pk of private_keys
pk_iter_next(private_keys, pk) ==
    IF pk <= Len(private_keys) THEN Some(private_keys[pk]) ELSE None

BundlerSignerLocal(key) == [kind |-> "Local", key |-> key]
BundlerSignerKms(key) == [kind |-> "Kms", key |-> key]

\* the address of a signer is the address of its key
signer_address(signer) == signer.key

\* time::timeout that waits for the future however long it takes
timeout_unbounded(duration, connection) == Ok(connection.output)

\* time::timeout(duration, future): the output of the future when it
\* completes within duration, Elapsed otherwise
timeout(duration, connection) ==
    IF connection.latency > duration THEN Err("Elapsed")
    ELSE Ok(connection.output)

\* the signer of create_bundle_builder: the next private key as a local
\* signer, a KMS signer once pk_iter is exhausted
connect_signer(a, pk, env) ==
    LET next == pk_iter_next(a.private_keys, pk)
        connected == timeout(a.redis_lock_ttl_millis \div KmsTimeoutDivisor,
                             env.kms_connection)
    IN  IF next # None
        THEN IF env.local_connect THEN Ok(BundlerSignerLocal(next[1]))
             ELSE Err("LocalSigner::connect")
        ELSE IF connected.tag = "Err" THEN Err("timeout connecting to KMS")
        ELSE IF connected.value.tag = "Err" THEN Err("failure connecting to KMS")
        ELSE Ok(BundlerSignerKms(connected.value.value))

\* what the last KMS connection came to, "none" without one
kms_outcome(a, pk, env) ==
    IF pk_iter_next(a.private_keys, pk) # None THEN "none"
    ELSE IF env.kms_connection.latency > a.redis_lock_ttl_millis \div KmsTimeoutDivisor
    THEN "timeout"
    ELSE IF env.kms_connection.output.tag = "Err" THEN "failure"
    ELSE "connected"

\* create_bundle_builder: the sender it spawns, or the error it returns
create_bundle_builder(index, ep, a, pk, env) ==
    LET signer == connect_signer(a, pk, env)
    IN  IF signer.tag = "Err" THEN [result |-> signer, trackers |-> 0]
        ELSE IF ~env.into_sender
        THEN [result |-> Err("into_sender"), trackers |-> 0]
        ELSE IF ~env.tracker_new
        THEN [result |-> Err("TransactionTrackerImpl::new"), trackers |-> 0]
        ELSE [result |-> Ok([index |-> index, ep |-> ep, signer |-> signer.value,
                             beneficiary |-> signer_address(signer.value),
                             status |-> "running"]),
              trackers |-> 1]

\* handle::flatten_handle on a task: pending while it runs, its result
\* when it returned, an error when it panicked
flatten_handle(status) ==
    CASE status = "running" -> "Pending"
      [] status = "ok" -> "Ok"
      [] OTHER -> "Err"

\* the task of try_join_all(sender_handles).map_ok(|_| ()): it fails when
\* a sender task panicked, and otherwise returns Ok once every sender task
\* has returned, whatever the senders returned
sender_handle(senders) ==
    IF \E k \in 1..Len(senders) : senders[k].status = "panicked" THEN "err"
    ELSE IF \A k \in 1..Len(senders) : senders[k].status \in {"ok", "err"}
    THEN "ok"
    ELSE "running"

\* try_join! of the three flattened handles
try_join(sender, builder, remote) ==
    IF "Err" \in {flatten_handle(sender), flatten_handle(builder), flatten_handle(remote)}
    THEN "Err"
    ELSE IF {flatten_handle(sender), flatten_handle(builder), flatten_handle(remote)} = {"Ok"}
    THEN "Ok"
    ELSE "Pending"

\* the locals of run at the next builder after builder i of entry point ep
next_builder(f, entry_points) ==
    IF f.i + 1 < entry_points[f.ep].num_bundle_builders
    THEN [f EXCEPT !.i = f.i + 1]
    ELSE [f EXCEPT !.ep = f.ep + 1, !.i = 0, !.stage = "match"]

-----------------------------------------------------------------------------
(* The calls drawn by Init.                                                *)

ProbeSlots ==
    {0, Base - 1, Base, Base + 1, Base + AssociatedRange - 1,
     Base + AssociatedRange, Base + 2 * AssociatedRange - 1,
     Base + 2 * AssociatedRange, U256Max - 1, U256Max}
    \cup {from_big_endian(a) : a \in Addresses}

EntryElements == {Base, Base + AssociatedRange, U256Max - 1}

\* maps with or without an entry for the address asked about and for another
ProbeMaps ==
    UNION {[D -> SUBSET EntryElements] : D \in SUBSET {SenderAddr, OtherAddr}}

AssociatedCalls ==
    {[self |-> m, address |-> a, slot |-> s] :
        m \in ProbeMaps, a \in {SenderAddr, OtherAddr}, s \in ProbeSlots}

\* slots accessed: within and just beyond the range of Base, the sender's
\* address as a word, and the largest word
AccessedSlots ==
    {Base + AssociatedRange - 1, Base + AssociatedRange,
     from_big_endian(SenderAddr), U256Max}

AccessInfos ==
    {[reads |-> r, writes |-> w] :
        r \in SUBSET AccessedSlots, w \in SUBSET AccessedSlots}

SlotMaps ==
    UNION {[D -> {{}, {Base}, {Base + AssociatedRange}}] :
             D \in SUBSET {SenderAddr, EntityAddr}}
    \cup {[D \in {SenderAddr} |-> {U256Max - 1}]}

Entities ==
    [kind : EntityTypes, address : {SenderAddr, EntityAddr}]

ParseCalls ==
    {a \in [access_info : AccessInfos, slots_by_address : SlotMaps,
            address : Addresses, sender : {SenderAddr},
            entrypoint : {EntryPointAddr}, has_factory : BOOLEAN,
            entity : Entities] :
        Cardinality(a.access_info.reads \cup a.access_info.writes) <= MaxSlots}

StakeInfos == [stake : 0..MaxStake, unstake_delay_sec : 0..MaxStake]

Settings == [min_stake_value : 0..MaxStake, min_unstake_delay : 0..MaxStake]

IsStakedCalls == [info : StakeInfos, sim_settings : Settings]

FactoryAddr    == Addr(2, 1)
PaymasterAddr  == Addr(3, 1)
AggregatorAddr == Addr(4, 1)

\* stake infos at and just below the minima [MaxStake, MaxStake]
EntityStakeInfos ==
    {i \in StakeInfos : i.stake + i.unstake_delay_sec >= 2 * MaxStake - 1}

ValidationOutputs ==
    [factory_info : EntityStakeInfos, sender_info : EntityStakeInfos,
     paymaster_info : EntityStakeInfos,
     aggregator_info :
        {None} \cup {Some(i) : i \in [address : {AggregatorAddr},
                                       stake_info : EntityStakeInfos]}]

EntityInfosCalls ==
    [factory_address : {None, Some(FactoryAddr)},
     sender_address : {SenderAddr},
     paymaster_address : {None, Some(PaymasterAddr)},
     entry_point_out : ValidationOutputs,
     sim_settings : {[min_stake_value |-> MaxStake, min_unstake_delay |-> MaxStake]},
     allow_unstaked_addresses :
        SUBSET {SenderAddr, FactoryAddr, PaymasterAddr, AggregatorAddr}]

ViolationLists ==
    UNION {[1..n -> SimulationViolations] : n \in 0..MaxViolations}

SimulationErrors ==
    {[violation_error |-> [tag |-> "Other"], entity_infos |-> None]}
    \cup {[violation_error |-> [tag |-> "Violations", violations |-> l],
           entity_infos |-> None] : l \in ViolationLists}

UserOpLists == {<<"op1">>, <<"op2", "op3">>}

\* UserOpsPerAggregator
Groups ==
    [user_ops : UserOpLists, aggregator : {ZeroAddress, AggregatorAddr, OtherAddr},
     signature : {"sig"}]

\* the groups of a bundle, one for each aggregator
GroupLists ==
    {l \in UNION {[1..n -> Groups] : n \in 0..MaxGroups} :
        \A i, j \in DOMAIN l : l[i].aggregator = l[j].aggregator => i = j}

RevertDatas ==
    {RevertData("FailedOp(uint256,string)", <<i, r>>) :
        i \in 0..MaxGas, r \in {"AA21 didn't pay prefund"}}
    \cup {RevertData("SignatureValidationFailed(address)", <<a>>) :
            a \in {AggregatorAddr}}
    \cup {RevertData(sel, <<>>) :
            sel \in {"FailedOp(uint256,string)", "SignatureValidationFailed(address)",
                     "Error(string)"}}

\* ContractError
ContractErrors ==
    {[tag |-> "Revert", data |-> d] : d \in RevertDatas}
    \cup {[tag |-> "MiddlewareError"], [tag |-> "ProviderError"]}

EstimateCalls ==
    [ops_per_aggregator : GroupLists, beneficiary : {OtherAddr},
     result : {Ok(g) : g \in 0..MaxGas} \cup {Err(e) : e \in ContractErrors}]

SendBundleCalls ==
    [ops_per_aggregator : GroupLists, beneficiary : {OtherAddr}, gas : 0..MaxGas,
     result : {Ok([tx_hash |-> "tx"])} \cup {Err(e) : e \in ContractErrors}]

FieldBytes == {0, 1, 255}

FieldDatas == UNION {[1..n -> FieldBytes] : n \in 0..(AddressLen + MaxExtra)}

\* the fields of a user operation, each with the values it is drawn from
FieldValues ==
    [sender |-> {ZeroAddress, SenderAddr},
     nonce |-> {0, 1, U256Max},
     init_code |-> {<<>>, FactoryAddr, FactoryAddr \o <<1>>, Zeros(AbiWord + 1)},
     call_data |-> {<<>>, <<0>>, <<1>>},
     call_gas_limit |-> {0, 1},
     verification_gas_limit |-> {0, 1},
     pre_verification_gas |-> {0, 1},
     max_fee_per_gas |-> {0, 1},
     max_priority_fee_per_gas |-> {0, 1},
     paymaster_and_data |-> {<<>>, <<1>>, PaymasterAddr \o <<0>>},
     signature |-> {<<>>, <<0>>, <<1, 2>>}]

FieldNames == DOMAIN FieldValues

\* the operations of the two conformance scenarios, scaled
BaseOperations ==
    {[sender |-> ZeroAddress, nonce |-> 0, init_code |-> <<>>, call_data |-> <<>>,
      call_gas_limit |-> 0, verification_gas_limit |-> 0, pre_verification_gas |-> 0,
      max_fee_per_gas |-> 0, max_priority_fee_per_gas |-> 0,
      paymaster_and_data |-> <<>>, signature |-> <<>>],
     [sender |-> SenderAddr, nonce |-> 1, init_code |-> FactoryAddr,
      call_data |-> <<1>>, call_gas_limit |-> 1, verification_gas_limit |-> 1,
      pre_verification_gas |-> 1, max_fee_per_gas |-> 1,
      max_priority_fee_per_gas |-> 1,
      paymaster_and_data |-> PaymasterAddr \o <<0>>, signature |-> <<1, 2>>]}

\* an operation with at most one field set to another value
OneFieldSet(uo) ==
    UNION {{[uo EXCEPT ![f] = v] : v \in FieldValues[f]} : f \in FieldNames}

UserOperations == UNION {OneFieldSet(uo) : uo \in BaseOperations}

ChainIds == {1}

GetAddressCalls == [data : FieldDatas]

OpHashCalls ==
    UNION {[uo : {uo}, other : OneFieldSet(uo), entry_point : {EntryPointAddr},
            chain_id : ChainIds] : uo \in UserOperations}

\* no key, one key, two keys, and the same key twice
PrivateKeyLists == {<<>>, <<"k1">>, <<"k1", "k2">>, <<"k1", "k1">>}

KmsKeyLists == {<<"kms1", "kms2">>}

EntryPointBuilderSettings ==
    [version : EntryPointVersions, num_bundle_builders : 0..MaxSenders,
     bundle_builder_index_offset : {0}]

RECURSIVE TotalBuilders(_)
TotalBuilders(entry_points) ==
    IF entry_points = <<>> THEN 0
    ELSE Head(entry_points).num_bundle_builders + TotalBuilders(Tail(entry_points))

EntryPointLists ==
    {l \in UNION {[1..n -> EntryPointBuilderSettings] : n \in 0..MaxEntryPoints} :
        TotalBuilders(l) <= MaxSenders}

RedisLockTtls == {6}

RunCalls ==
    [private_keys : PrivateKeyLists, aws_kms_key_ids : KmsKeyLists,
     redis_lock_ttl_millis : RedisLockTtls, entry_points : EntryPointLists,
     remote_address : {None, Some("addr")}, ep_06 : BOOLEAN, ep_07 : BOOLEAN]

\* the KMS keys no running sender holds the lease of
FreeKmsKeys ==
    {args.aws_kms_key_ids[n] : n \in 1..Len(args.aws_kms_key_ids)}
        \ {tasks.senders[k].signer.key :
              k \in {j \in 1..Len(tasks.senders) :
                        /\ tasks.senders[j].status = "running"
                        /\ tasks.senders[j].signer.kind = "Kms"}}

\* what KmsSigner::connect comes to, and after how long
KmsConnections ==
    [latency : 0..MaxLatency,
     output : {Ok(k) : k \in FreeKmsKeys} \cup {Err("KmsSigner::connect")}]

\* what the services create_bundle_builder awaits come to: the local
\* signer when pk_iter has a key left, the KMS connection otherwise
Environments ==
    IF pk_iter_next(args.private_keys, frame.pk) # None
    THEN [local_connect : BOOLEAN,
          kms_connection : {[latency |-> 0, output |-> Err("KmsSigner::connect")]},
          into_sender : BOOLEAN, tracker_new : BOOLEAN]
    ELSE [local_connect : {TRUE}, kms_connection : KmsConnections,
          into_sender : BOOLEAN, tracker_new : BOOLEAN]

InitFrame ==
    [ep |-> 1, i |-> 0, pk |-> 1, trackers |-> 0, kms |-> "none", stage |-> "match"]

InitTasks == [senders |-> <<>>, builder |-> "none", remote |-> "none"]

Init ==
    /\ pc = "call"
    /\ frame = InitFrame
    /\ tasks = InitTasks
    /\ ret = <<>>
    /\ \/ op = "is_associated_slot" /\ args \in AssociatedCalls
       \/ op = "parse_storage_accesses" /\ args \in ParseCalls
       \/ op = "is_staked" /\ args \in IsStakedCalls
       \/ op = "entity_infos" /\ args \in EntityInfosCalls
       \/ op = "from_simulation_error" /\ args \in SimulationErrors
       \/ op = "estimate_handle_ops_gas" /\ args \in EstimateCalls
       \/ op = "send_bundle" /\ args \in SendBundleCalls
       \/ op = "get_address_from_field" /\ args \in GetAddressCalls
       \/ op = "op_hash" /\ args \in OpHashCalls
       \/ op = "run" /\ args \in RunCalls

IsAssociatedSlot ==
    /\ pc = "call" /\ op = "is_associated_slot"
    /\ ret' = is_associated_slot(args.self, args.address, args.slot)
    /\ pc' = "done"
    /\ UNCHANGED <<op, args, frame, tasks>>

ParseStorageAccesses ==
    /\ pc = "call" /\ op = "parse_storage_accesses"
    /\ \E reads_order \in KeyOrders(args.access_info.reads),
          writes_order \in KeyOrders(args.access_info.writes) :
          ret' = parse_storage_accesses(args, reads_order, writes_order)
    /\ pc' = "done"
    /\ UNCHANGED <<op, args, frame, tasks>>

IsStaked ==
    /\ pc = "call" /\ op = "is_staked"
    /\ ret' = is_staked(args.info, args.sim_settings)
    /\ pc' = "done"
    /\ UNCHANGED <<op, args, frame, tasks>>

\* step 4 of simulate_validation: the entity infos are computed from the
\* validation output ...
InfosFromValidationOutput ==
    /\ pc = "call" /\ op = "entity_infos"
    /\ ret' = infos_from_validation_output(
                  args.factory_address, args.sender_address,
                  args.paymaster_address, args.entry_point_out, args.sim_settings)
    /\ pc' = "infos"
    /\ UNCHANGED <<op, args, frame, tasks>>

\* ... and then overridden, in place, with the allow-list
OverrideInfosStaked ==
    /\ pc = "infos" /\ op = "entity_infos"
    /\ ret' = override_infos_staked(ret, args.allow_unstaked_addresses)
    /\ pc' = "done"
    /\ UNCHANGED <<op, args, frame, tasks>>

FromSimulationError ==
    /\ pc = "call" /\ op = "from_simulation_error"
    /\ ret' = from_simulation_error(args)
    /\ pc' = "done"
    /\ UNCHANGED <<op, args, frame, tasks>>

\* ret.call is the contract call built, ret.out what the method returns
EstimateHandleOpsGas ==
    /\ pc = "call" /\ op = "estimate_handle_ops_gas"
    /\ ret' = [call |-> get_handle_ops_call(args.ops_per_aggregator, args.beneficiary),
               out |-> estimate_handle_ops_gas(args.result)]
    /\ pc' = "done"
    /\ UNCHANGED <<op, args, frame, tasks>>

SendBundle ==
    /\ pc = "call" /\ op = "send_bundle"
    /\ ret' = [call |-> get_handle_ops_call(args.ops_per_aggregator, args.beneficiary),
               gas |-> args.gas,
               out |-> send_bundle(args.result)]
    /\ pc' = "done"
    /\ UNCHANGED <<op, args, frame, tasks>>

GetAddressFromField ==
    /\ pc = "call" /\ op = "get_address_from_field"
    /\ ret' = get_address_from_field(args.data)
    /\ pc' = "done"
    /\ UNCHANGED <<op, args, frame, tasks>>

OpHash ==
    /\ pc = "call" /\ op = "op_hash"
    /\ ret' = [factory |-> factory(args.uo),
               paymaster |-> paymaster(args.uo),
               packed |-> pack(args.uo),
               other_packed |-> pack(args.other),
               hash |-> op_hash(args.uo, args.entry_point, args.chain_id),
               other_hash |-> op_hash(args.other, args.entry_point, args.chain_id)]
    /\ pc' = "done"
    /\ UNCHANGED <<op, args, frame, tasks>>

\* run at `match ep.version`: create_builders_v0_6 / v0_7 up to its loop
MatchVersion ==
    /\ pc = "call" /\ op = "run" /\ frame.stage = "match"
    /\ frame.ep <= Len(args.entry_points)
    /\ LET ep == args.entry_points[frame.ep]
       IN  IF ep.version = "Unspecified"
           THEN /\ ret' = Panic /\ pc' = "done" /\ UNCHANGED frame
           ELSE IF ep.version = "V0_6" /\ ~args.ep_06
           THEN /\ ret' = Err("entry point v0.6 not supplied")
                /\ pc' = "done" /\ UNCHANGED frame
           ELSE IF ep.version = "V0_7" /\ ~args.ep_07
           THEN /\ ret' = Err("entry point v0.7 not supplied")
                /\ pc' = "done" /\ UNCHANGED frame
           ELSE IF ep.num_bundle_builders = 0
           THEN /\ frame' = [frame EXCEPT !.ep = frame.ep + 1]
                /\ UNCHANGED <<ret, pc>>
           ELSE /\ frame' = [frame EXCEPT !.i = 0, !.stage = "create"]
                /\ UNCHANGED <<ret, pc>>
    /\ UNCHANGED <<op, args, tasks>>

\* one round of the loop of create_builders: create_bundle_builder
CreateBundleBuilder ==
    /\ pc = "call" /\ op = "run" /\ frame.stage = "create"
    /\ \E env \in Environments :
          LET ep == args.entry_points[frame.ep]
              created == create_bundle_builder(frame.i + ep.bundle_builder_index_offset,
                                               frame.ep, args, frame.pk, env)
              claimed == [frame EXCEPT
                            !.pk = IF frame.pk <= Len(args.private_keys)
                                   THEN frame.pk + 1 ELSE frame.pk,
                            !.kms = kms_outcome(args, frame.pk, env),
                            !.trackers = frame.trackers + created.trackers]
          IN  IF created.result.tag = "Err"
              THEN /\ ret' = created.result
                   /\ pc' = "done"
                   /\ frame' = claimed
                   /\ UNCHANGED tasks
              ELSE /\ tasks' = [tasks EXCEPT
                                  !.senders = Append(tasks.senders, created.result.value)]
                   /\ frame' = next_builder(claimed, args.entry_points)
                   /\ UNCHANGED <<ret, pc>>
    /\ UNCHANGED <<op, args>>

\* run after the loop: the joiner of the senders, the local builder
\* server and the remote server are spawned
SpawnServers ==
    /\ pc = "call" /\ op = "run" /\ frame.stage = "match"
    /\ frame.ep > Len(args.entry_points)
    /\ IF args.remote_address = None
       THEN /\ tasks' = [tasks EXCEPT !.builder = "running", !.remote = "ok"]
            /\ frame' = [frame EXCEPT !.stage = "join"]
            /\ UNCHANGED <<ret, pc>>
       ELSE \/ /\ tasks' = [tasks EXCEPT !.builder = "running", !.remote = "running"]
               /\ frame' = [frame EXCEPT !.stage = "join"]
               /\ UNCHANGED <<ret, pc>>
            \/ /\ tasks' = [tasks EXCEPT !.builder = "running"]
               /\ ret' = Err("spawn_remote_builder_server")
               /\ pc' = "done"
               /\ UNCHANGED frame
    /\ UNCHANGED <<op, args>>

\* a sender task ends: send_bundles_in_loop returns Ok or Err, or panics
SenderExits ==
    /\ pc = "call" /\ op = "run"
    /\ \E k \in 1..Len(tasks.senders), status \in {"ok", "err", "panicked"} :
          /\ tasks.senders[k].status = "running"
          /\ tasks' = [tasks EXCEPT !.senders[k].status = status]
    /\ UNCHANGED <<op, args, ret, pc, frame>>

\* the local builder server ends
BuilderServerExits ==
    /\ pc = "call" /\ op = "run" /\ tasks.builder = "running"
    /\ \E status \in {"ok", "err"} : tasks' = [tasks EXCEPT !.builder = status]
    /\ UNCHANGED <<op, args, ret, pc, frame>>

\* the remote builder server ends
RemoteServerExits ==
    /\ pc = "call" /\ op = "run" /\ tasks.remote = "running"
    /\ \E status \in {"ok", "err"} : tasks' = [tasks EXCEPT !.remote = status]
    /\ UNCHANGED <<op, args, ret, pc, frame>>

\* run at try_join!: Ok when the three handles returned Ok, an error as
\* soon as one of them failed
RunReturns ==
    /\ pc = "call" /\ op = "run" /\ frame.stage = "join"
    /\ LET joined == try_join(sender_handle(tasks.senders), tasks.builder, tasks.remote)
       IN  /\ joined # "Pending"
           /\ ret' = IF joined = "Ok" THEN Ok(<<>>) ELSE Err("Builder server error")
    /\ pc' = "done"
    /\ UNCHANGED <<op, args, frame, tasks>>

Next ==
    \/ IsAssociatedSlot
    \/ ParseStorageAccesses
    \/ IsStaked
    \/ InfosFromValidationOutput
    \/ OverrideInfosStaked
    \/ FromSimulationError
    \/ EstimateHandleOpsGas
    \/ SendBundle
    \/ GetAddressFromField
    \/ OpHash
    \/ MatchVersion
    \/ CreateBundleBuilder
    \/ SpawnServers
    \/ SenderExits
    \/ BuilderServerExits
    \/ RemoteServerExits
    \/ RunReturns

Spec == Init /\ [][Next]_vars

-----------------------------------------------------------------------------
(* What the properties below speak of.                                     *)

Done(o) == pc = "done" /\ op = o

\* the specification's definition of an associated slot
Associated(m, a, s) ==
    \/ s = from_big_endian(a)
    \/ /\ a \in DOMAIN m
       /\ \E t \in m[a] : t <= s /\ s - t < AssociatedRange

\* the restrictions the finished parse_storage_accesses call returned
Emitted == IF ret.tag = "Ok" THEN ret.value ELSE <<>>

EmittedFor(s) == {Emitted[i] : i \in {j \in DOMAIN Emitted : Emitted[j].slot = s}}

Accessed == args.access_info.reads \cup args.access_info.writes

SenderAssociated(s) == Associated(args.slots_by_address, args.sender, s)
EntityAssociated(s) == Associated(args.slots_by_address, args.entity.address, s)

External ==
    args.address # args.sender /\ args.address # args.entrypoint

SameAddress == args.address = args.entity.address

-----------------------------------------------------------------------------
\* C1: is_associated_slot(A, s) returns true exactly when s is A read as a
\* word, or some element t of A's slot set has t <= s and s - t < 128; it
\* returns false otherwise, for every map, address and slot.
C1_AssociatedIffRange ==
    Done("is_associated_slot") =>
        /\ ~ret.panic
        /\ ret.value = Associated(args.self, args.address, args.slot)

\* C2: when the accessed address is the sender or the entry point,
\* parse_storage_accesses returns the empty list, whatever is read or
\* written, whoever accesses, with or without a factory.
C2_SenderAndEntryPointUnrestricted ==
    (Done("parse_storage_accesses") /\ ~External) => ret = Ok(<<>>)

C2_Witness ==
    /\ Done("parse_storage_accesses")
    /\ args.address = args.entrypoint
    /\ args.entity.address # args.sender
    /\ U256Max \in args.access_info.writes
    /\ args.sender \in DOMAIN args.slots_by_address
    /\ args.has_factory
    /\ ret = Ok(<<>>)

\* C3: on an address that is neither the sender, the entry point nor the
\* accessing entity's own, with no factory, no restriction is emitted for a
\* slot associated with the sender, read or written.
C3_SenderAssociatedNoFactoryAllowed ==
    (Done("parse_storage_accesses") /\ External /\ ~SameAddress
        /\ ~args.has_factory) =>
        \A s \in Accessed : SenderAssociated(s) => EmittedFor(s) = {}

C3_Witness ==
    /\ Done("parse_storage_accesses") /\ External /\ ~SameAddress
    /\ ~args.has_factory
    /\ ret.tag = "Ok"
    /\ \E s \in args.access_info.writes, t \in Accessed :
          /\ SenderAssociated(s) /\ s # from_big_endian(args.sender)
          /\ EmittedFor(s) = {}
          /\ ~SenderAssociated(t) /\ EmittedFor(t) # {}

\* C4: same address and slot as C3 but the operation has a factory:
\* NeedsStake(X, E.kind, Account, A, s) is emitted for s, X being Factory
\* when E is an account or a factory and E.kind when E is a paymaster or an
\* aggregator.
C4_SenderAssociatedFactoryNeedsStake ==
    (Done("parse_storage_accesses") /\ External /\ ~SameAddress
        /\ args.has_factory) =>
        \A s \in Accessed : SenderAssociated(s) =>
            EmittedFor(s) =
                {NeedsStake(IF args.entity.kind \in {"Account", "Factory"}
                              THEN "Factory" ELSE args.entity.kind,
                            args.entity.kind, "Account", args.address, s)}

\* C5: on an address other than the sender and the entry point, for a slot
\* the sender-associated rule does not apply to, NeedsStake(E.kind, E.kind,
\* E.kind, A, s) is emitted when s is associated with E's address or A is
\* E's address, read or written, with or without a factory.
C5_EntityAssociatedNeedsStake ==
    (Done("parse_storage_accesses") /\ External) =>
        \A s \in Accessed :
            ((~SenderAssociated(s) \/ SameAddress)
                /\ (EntityAssociated(s) \/ SameAddress)) =>
            EmittedFor(s) =
                {NeedsStake(args.entity.kind, args.entity.kind,
                            args.entity.kind, args.address, s)}

\* C6: on an address that is neither the sender, the entry point nor E's
\* own, a slot associated with neither the sender nor E gets Banned(s) when
\* it is written and NeedsStake(E.kind, E.kind, None, A, s) when it is only
\* read; Banned is emitted for no other slot.
C6_UnrelatedSlotBannedIffWritten ==
    Done("parse_storage_accesses") =>
        /\ (External /\ ~SameAddress) =>
             \A s \in Accessed :
                (~SenderAssociated(s) /\ ~EntityAssociated(s)) =>
                    EmittedFor(s) =
                        IF s \in args.access_info.writes
                        THEN {Banned(s)}
                        ELSE {NeedsStake(args.entity.kind, args.entity.kind,
                                         "None", args.address, s)}
        /\ \A i \in DOMAIN Emitted :
             Emitted[i].tag = "Banned" =>
                /\ External /\ ~SameAddress
                /\ Emitted[i].slot \in args.access_info.writes
                /\ ~SenderAssociated(Emitted[i].slot)
                /\ ~EntityAssociated(Emitted[i].slot)

\* C7: parse_storage_accesses always returns Ok, and every accessed slot
\* gets exactly one classification: nothing, one NeedsStake or one Banned.
C7_ClassifierTotal ==
    Done("parse_storage_accesses") =>
        /\ ret.tag = "Ok"
        /\ \A s \in Accessed : Cardinality(EmittedFor(s)) <= 1
        /\ \A i \in DOMAIN Emitted :
             /\ Emitted[i].tag \in {"NeedsStake", "Banned"}
             /\ Emitted[i].slot \in Accessed

\* C8: is_staked is true exactly when the stake is at least min_stake_value
\* and the unstake delay is at least min_unstake_delay, equality included.
C8_IsStakedBothBoundsInclusive ==
    Done("is_staked") =>
        (ret <=> (/\ args.info.stake >= args.sim_settings.min_stake_value
                  /\ args.info.unstake_delay_sec >= args.sim_settings.min_unstake_delay))

C8_Witness ==
    /\ Done("is_staked")
    /\ args.info.stake = args.sim_settings.min_stake_value
    /\ args.info.unstake_delay_sec = args.sim_settings.min_unstake_delay
    /\ args.sim_settings.min_stake_value > 0
    /\ args.sim_settings.min_unstake_delay > 0
    /\ ret = TRUE

\* the entities present in the infos the finished call left
EntitiesPresent ==
    {ret.sender}
    \cup (IF ret.factory = None THEN {} ELSE {ret.factory[1]})
    \cup (IF ret.paymaster = None THEN {} ELSE {ret.paymaster[1]})
    \cup (IF ret.aggregator = None THEN {} ELSE {ret.aggregator[1]})

\* C9: after override_infos_staked, every entity present in the infos
\* (sender, factory, paymaster, aggregator) whose address is on the
\* allow-list has is_staked = true.
C9_AllowListOverridesEveryEntity ==
    Done("entity_infos") =>
        \A ei \in EntitiesPresent :
            ei.address \in args.allow_unstaked_addresses => ei.is_staked

\* C10: the conversion gives Other for a generic error and for an empty
\* violation list, and otherwise SimulationViolation(v) with v an element of
\* the list that no element of the list is less than.
C10_MempoolErrorIsLeastViolation ==
    Done("from_simulation_error") =>
        IF args.violation_error.tag # "Violations"
           \/ args.violation_error.violations = <<>>
        THEN ret.tag = "Other"
        ELSE LET l == args.violation_error.violations IN
             /\ ret.tag = "SimulationViolation"
             /\ \E i \in DOMAIN l : l[i] = ret.violation
             /\ \A i \in DOMAIN l : ~ViolationLess(l[i], ret.violation)

C10_Witness ==
    /\ Done("from_simulation_error")
    /\ args.violation_error.tag = "Violations"
    /\ Len(args.violation_error.violations) = MaxViolations
    /\ ret.tag = "SimulationViolation"
    /\ ret.violation = args.violation_error.violations[MaxViolations]
    /\ \A i \in 1..(MaxViolations - 1) :
          ViolationLess(ret.violation, args.violation_error.violations[i])

CallMade == Done("estimate_handle_ops_gas") \/ Done("send_bundle")

\* C12 as claimed: the ops of a zero-aggregator group are submitted through
\* handleOps and the ops of every other group through handleAggregatedOps,
\* whatever groups the list holds.
C12_GroupsRoutedByAggregator ==
    CallMade =>
        \A i \in DOMAIN args.ops_per_aggregator :
            LET g == args.ops_per_aggregator[i] IN
            IF g.aggregator = ZeroAddress
            THEN ret.call.method = "handleOps" /\ ret.call.ops = g.user_ops
            ELSE /\ ret.call.method = "handleAggregatedOps"
                 /\ \E j \in DOMAIN ret.call.ops_per_aggregator :
                        ret.call.ops_per_aggregator[j] = g

\* C12 amended: a list of exactly one group whose aggregator is zero is
\* submitted through handleOps with that group's ops; every other list is
\* submitted whole, its zero-aggregator groups included, through
\* handleAggregatedOps, so every group with a non-zero aggregator is.
C12_HandleOpsOnlyForALoneZeroGroup ==
    CallMade =>
        LET l == args.ops_per_aggregator IN
        /\ ret.call.beneficiary = args.beneficiary
        /\ (Len(l) = 1 /\ l[1].aggregator = ZeroAddress) =>
              ret.call.method = "handleOps" /\ ret.call.ops = l[1].user_ops
        /\ ~(Len(l) = 1 /\ l[1].aggregator = ZeroAddress) =>
              ret.call.method = "handleAggregatedOps" /\ ret.call.ops_per_aggregator = l

C12_Witness ==
    /\ Done("send_bundle")
    /\ Len(args.ops_per_aggregator) = 2
    /\ args.ops_per_aggregator[1].aggregator = ZeroAddress
    /\ args.ops_per_aggregator[2].aggregator # ZeroAddress
    /\ ret.call.method = "handleAggregatedOps"
    /\ ret.call.ops_per_aggregator = args.ops_per_aggregator

\* two operations that agree on every field but, possibly, the signature
SameButSignature(a, b) ==
    \A f \in FieldNames \ {"signature"} : a[f] = b[f]

\* C19: the hash of an operation is the digest of the digest of its packed
\* form followed by the encoded entry point and chain id; the packed form
\* holds every field but the signature, so two operations that differ only
\* in the signature have the same packed form and the same hash, and two
\* that differ in another field have different packed forms.
C19_OpHashIgnoresOnlyTheSignature ==
    Done("op_hash") =>
        /\ SameButSignature(args.uo, args.other)
              <=> ret.packed = ret.other_packed
        /\ ret.packed = ret.other_packed <=> ret.hash = ret.other_hash

\* two operations with different signatures and nothing else different
C19_Witness ==
    /\ Done("op_hash")
    /\ args.uo.signature # args.other.signature
    /\ SameButSignature(args.uo, args.other)
    /\ args.uo.init_code # <<>>
    /\ ret.hash = ret.other_hash

\* C20: the address of a field is absent when the field is shorter than an
\* address and is the field's first bytes otherwise; factory and paymaster
\* are that address of init_code and of paymaster_and_data.
C20_AddressIsHeadOfLongEnoughField ==
    /\ Done("get_address_from_field") =>
          /\ Len(args.data) < AddressLen => ret = None
          /\ Len(args.data) >= AddressLen =>
                ret = Some([i \in 1..AddressLen |-> args.data[i]])
    /\ Done("op_hash") =>
          /\ Len(args.uo.init_code) < AddressLen => ret.factory = None
          /\ Len(args.uo.init_code) >= AddressLen =>
                ret.factory = Some([i \in 1..AddressLen |-> args.uo.init_code[i]])
          /\ Len(args.uo.paymaster_and_data) < AddressLen => ret.paymaster = None
          /\ Len(args.uo.paymaster_and_data) >= AddressLen =>
                ret.paymaster =
                    Some([i \in 1..AddressLen |-> args.uo.paymaster_and_data[i]])

\* a field of exactly the length of an address, returned whole
C20_Witness ==
    /\ Done("get_address_from_field")
    /\ Len(args.data) = AddressLen
    /\ ret = Some(args.data)


\* the place of builder i of entry point ep among the builders run creates
BuilderPosition(entry_points, ep, i) ==
    TotalBuilders(SubSeq(entry_points, 1, ep - 1)) + i + 1

\* sender k was spawned for builder i of entry point ep
SpawnedFor(k, ep, i) ==
    /\ tasks.senders[k].ep = ep
    /\ tasks.senders[k].index = i + args.entry_points[ep].bundle_builder_index_offset

\* C13: in every state of run, no two senders that run has spawned and
\* that are still running hold the same signer address.
C13_NoTwoSendersShareASigner ==
    \A j, k \in 1..Len(tasks.senders) :
        /\ j # k
        /\ tasks.senders[j].status = "running"
        /\ tasks.senders[k].status = "running"
        => tasks.senders[j].beneficiary # tasks.senders[k].beneficiary

C15_KmsTimeoutFailsStartup ==
    frame.kms = "timeout" =>
        /\ pc = "done"
        /\ ret.tag = "Err"
        /\ ret.error = "timeout connecting to KMS"
        /\ frame.trackers = Len(tasks.senders)
        /\ \A k \in 1..Len(tasks.senders) : ~SpawnedFor(k, frame.ep, frame.i)

\* the KMS connection of a later builder times out while a sender runs
C15_Witness ==
    /\ Done("run")
    /\ frame.kms = "timeout"
    /\ Len(tasks.senders) >= 1
    /\ frame.pk > Len(args.private_keys)

\* C16: run never returns Ok after a sender has exited with an error.
C16_SenderErrorFailsRun ==
    /\ Done("run")
    /\ \E k \in 1..Len(tasks.senders) : tasks.senders[k].status = "err"
    => ret.tag # "Ok"

\* C17: when run returns, with Ok or with an error, every sender it
\* spawned has finished.
C17_RunReturnsAfterSendersDrained ==
    /\ Done("run")
    /\ ret.tag \in {"Ok", "Err"}
    => \A k \in 1..Len(tasks.senders) : tasks.senders[k].status # "running"

\* run is at an entry-point setting of version Unspecified
AtUnspecified ==
    /\ op = "run"
    /\ frame.stage = "match"
    /\ frame.ep <= Len(args.entry_points)
    /\ args.entry_points[frame.ep].version = "Unspecified"

\* C18: at an entry-point setting of version Unspecified run ends by
\* returning an error, and no sender was spawned for that setting.
C18_UnspecifiedVersionIsAnError ==
    AtUnspecified /\ pc = "done" =>
        /\ ret.tag = "Err"
        /\ \A k \in 1..Len(tasks.senders) : tasks.senders[k].ep # frame.ep

\* C21: parse_storage_accesses returns at most one restriction for a
\* slot: no two entries of the returned list name the same slot, also
\* when the slot is both read and written.
C21_OneRestrictionPerSlot ==
    Done("parse_storage_accesses") /\ ret.tag = "Ok" =>
        \A i, j \in DOMAIN ret.value :
            i # j => ret.value[i].slot # ret.value[j].slot

\* C22: is_associated_slot returns a boolean for every address and every
\* slot, the largest word included: neither slot + 1 nor
\* slot - next_smallest_slot overflows.
C22_AssociatedSlotNeverOverflows ==
    Done("is_associated_slot") => ~ret.panic

====
